---------------------------- MODULE Spec2Model ----------------------------
(***************************************************************************)
(* A model of two fragments of ScummVM:                                    *)
(*   - Ultima::Ultima8::AudioChannel (audio_channel.h): the inline         *)
(*     setters and getters of a mixer channel wrapper;                     *)
(*   - Toon::ToonstruckSmackerDecoder and Toon::Movie (movie.cpp): the     *)
(*     low-res marker of the decoder and the playback loop of the movie    *)
(*     player.                                                             *)
(* The three parts share one set of variables; each has its own            *)
(* specification, which leaves the variables of the other parts alone.     *)
(***************************************************************************)
EXTENDS Integers, Sequences, FiniteSets, TLC

VARIABLES
    \* ---- AudioChannel (audio_channel.h:34-44) ----
    lVol,        \* _lVol
    rVol,        \* _rVol
    priority,    \* _priority
    paused,      \* _paused
    mixerLog,    \* the calls the last operation made on _mixer, in order
    chanCall,    \* the last operation called on the channel, with its arguments
    chanRet,     \* what the last getter handed back
    hVol,        \* history: arguments of the most recent setVolume (<<>>: none yet)
    hPrio,       \* history: argument of the most recent setPriority (<<>>: none yet)
    volArgs,     \* the (lvol, rvol) a caller is about to hand to setVolume (<<>>: none)
    \* ---- ToonstruckSmackerDecoder (movie.cpp:37-59) ----
    lowRes,      \* _lowRes
    loaded,      \* the base decoder holds a loaded stream
    height,      \* getHeight() of the loaded video
    streamPos,   \* bytes this class has read from _fileStream since the load
    baseLog,     \* the calls the last operation delegated to SmackerDecoder::handleAudioTrack
    decCall,     \* the last operation called on the decoder, with its inputs
    hMarker,     \* history: the most recent marker chunk since the last good load, as
                 \* <<its height, getHeight() then>> (<<>>: none)
    \* ---- Movie (movie.cpp:66-179) and the host services it calls ----
    pc,              \* where the movie is: "idle" (constructed, no play running),
                     \* "start", "loop", "shown", "poll", "ret" (inside play), "error"
                     \* (error() ended the program), "destroyed"
    playing,         \* _playing
    video,           \* play's argument video
    flags,           \* play's argument flags (-1: play not called yet)
    isFirstIntroVideo,  \* play's local, handed to playVideo
    subtitleNews,    \* SubtitleRenderer objects created by this movie
    subtitleDeletes, \* times _subtitle was deleted
    decoderDeletes,  \* times _decoder was deleted
    closes,          \* calls of _decoder->close()
    musicVolume,     \* the audio manager's music volume
    musicMuted,      \* what isMusicMuted() answered last
    width,           \* the loaded video's width
    framesLeft,      \* frames the decoder has yet to decode: endOfVideo() iff 0
    started,         \* calls of _decoder->start() in this play
    quit,            \* what shouldQuit() answered last
    frame,           \* the local frame of the display update under way
    unused,          \* the local unused of the display update, and what its memory
                     \* holds afterwards
    calls,           \* the host calls of the display update under way, in order
    polled,          \* events polled in this loop iteration
    lastEvent,       \* the event polled last in this loop iteration
    dirtyCount       \* calls of dirtyAllScreen() in this playVideo

chanVars == <<lVol, rVol, priority, paused, mixerLog, chanCall, chanRet, hVol, hPrio, volArgs>>
decVars == <<lowRes, loaded, height, streamPos, baseLog, decCall, hMarker>>
movVars == <<pc, playing, video, flags, isFirstIntroVideo, subtitleNews,
             subtitleDeletes, decoderDeletes, closes, musicVolume, musicMuted, width,
             framesLeft, started, quit, frame, unused, calls, polled,
             lastEvent, dirtyCount>>
vars == <<chanVars, decVars, movVars>>

(***************************************************************************)
(*                              AudioChannel                               *)
(***************************************************************************)

\* "0-256", the documented range of _lVol and _rVol
MaxVol == 256

\* the volumes the channel operations are called with
Vols == {0, 1, MaxVol \div 2, MaxVol - 1, MaxVol}

\* the priorities the channel operations are called with ("anything")
Prios == {-1, 0, 7}

\* the one sound handle of the channel
soundHandle == "_soundHandle"

\* C's integer division for a positive divisor: the quotient truncates toward zero
\* (a variant that rounds toward minus infinity)
CDivFloor(a, b) == a \div b

CDiv(a, b) == IF a >= 0 THEN a \div b ELSE -((-a) \div b)

\* the volume setVolume hands to Mixer::setChannelVolume
ChannelVolume(lvol, rvol) == CDiv(rvol + lvol, 2)

\* the balance setVolume hands to Mixer::setChannelBalance
ChannelBalance(lvol, rvol) == CDiv(rvol - lvol, 2)

NoCall == [op |-> "none", a |-> 0, b |-> 0]

\* the fields after construction: the constructor is not part of the header, so the
\* scalars hold any value of their range
ChannelInit(volumes, prios, pauses) ==
    /\ lVol \in volumes
    /\ rVol \in volumes
    /\ priority \in prios
    /\ paused \in pauses
    /\ mixerLog = <<>>
    /\ chanCall = NoCall
    /\ chanRet = <<>>
    /\ hVol = <<>>
    /\ hPrio = <<>>

\* the values setVolume caches
\* (a variant that caches what the mixer is handed)
CachedVolumeAveraged(lvol, rvol) ==
    <<ChannelVolume(lvol, rvol), ChannelVolume(lvol, rvol)>>

CachedVolume(lvol, rvol) == <<lvol, rvol>>

SetVolume(lvol, rvol) ==
    /\ lVol' = CachedVolume(lvol, rvol)[1]
    /\ rVol' = CachedVolume(lvol, rvol)[2]
    /\ mixerLog' = << [fn |-> "setChannelVolume", handle |-> soundHandle,
                       val |-> ChannelVolume(lvol, rvol)],
                      [fn |-> "setChannelBalance", handle |-> soundHandle,
                       val |-> ChannelBalance(lvol, rvol)] >>
    /\ chanCall' = [op |-> "setVolume", a |-> lvol, b |-> rvol]
    /\ hVol' = <<lvol, rvol>>
    /\ UNCHANGED <<priority, paused, chanRet, hPrio, volArgs>>

GetVolume ==
    /\ chanRet' = <<lVol, rVol>>
    /\ chanCall' = [op |-> "getVolume", a |-> 0, b |-> 0]
    /\ mixerLog' = <<>>
    /\ UNCHANGED <<lVol, rVol, priority, paused, hVol, hPrio, volArgs>>

SetPriority(p) ==
    /\ priority' = p
    /\ chanCall' = [op |-> "setPriority", a |-> p, b |-> 0]
    /\ mixerLog' = <<>>
    /\ hPrio' = <<p>>
    /\ UNCHANGED <<lVol, rVol, paused, chanRet, hVol, volArgs>>

GetPriority ==
    /\ chanRet' = <<priority>>
    /\ chanCall' = [op |-> "getPriority", a |-> 0, b |-> 0]
    /\ mixerLog' = <<>>
    /\ UNCHANGED <<lVol, rVol, priority, paused, hVol, hPrio, volArgs>>

IsPaused ==
    /\ chanRet' = <<paused>>
    /\ chanCall' = [op |-> "isPaused", a |-> 0, b |-> 0]
    /\ mixerLog' = <<>>
    /\ UNCHANGED <<lVol, rVol, priority, paused, hVol, hPrio, volArgs>>

(***************************************************************************)
(*                        ToonstruckSmackerDecoder                         *)
(***************************************************************************)

\* the bytes a stream may hold: enough to spell 200 (C8 00), 1 (01 00) and 256 (00 01)
Bytes == {0, 1, 200}

\* the heights a loaded video may report
Heights == {2, 400, 401}

Tracks == {0, 1, 2}
ChunkSizes == {0, 4, 8}
UnpackedSizes == {0, 16}

\* the most marker chunks one stream holds
MaxMarkers == 2

\* Common::ReadStream::readUint16LE on the bytes b0, b1
\* (a variant that reads big-endian)
ReadUint16BE(b0, b1) == 256 * b0 + b1

ReadUint16LE(b0, b1) == b0 + 256 * b1

\* the flag a marker chunk of the given height leaves, for a video of height h
MarkerLowRes(markerHeight, h) == markerHeight = h \div 2

NoDecCall == [op |-> "new", ok |-> TRUE, track |-> 0, chunkSize |-> 0,
              unpackedSize |-> 0, bytes |-> <<>>]

\* ToonstruckSmackerDecoder::ToonstruckSmackerDecoder
DecoderInit ==
    /\ lowRes = FALSE
    /\ loaded = FALSE
    /\ height = 0
    /\ streamPos = 0
    /\ baseLog = <<>>
    /\ decCall = NoDecCall
    /\ hMarker = <<>>

\* the flag after loadStream, given what the base class's loadStream returned
LoadStreamLowRes(ok, cur) == IF ok THEN FALSE ELSE cur

\* ToonstruckSmackerDecoder::loadStream; ok and h are what the base class's
\* loadStream returns and reads from the header
LoadStream(ok, h) ==
    /\ lowRes' = LoadStreamLowRes(ok, lowRes)
    /\ IF ok
       THEN /\ loaded' = TRUE
            /\ height' = h
            /\ streamPos' = 0
            /\ hMarker' = <<>>
       ELSE /\ loaded' \in {loaded, FALSE}
            /\ UNCHANGED <<height, streamPos, hMarker>>
    /\ baseLog' = <<>>
    /\ decCall' = [NoDecCall EXCEPT !.op = "loadStream", !.ok = ok]

\* whether handleAudioTrack takes the chunk for the low-res marker
IsMarker(track, chunkSize) == track = 1 /\ chunkSize = 4

\* the bytes handleAudioTrack reads itself: four of a marker chunk, none otherwise
StreamBytes(track, chunkSize) ==
    IF IsMarker(track, chunkSize) THEN [1..4 -> Bytes] ELSE {<<>>}

\* ToonstruckSmackerDecoder::handleAudioTrack; bytes are the next four bytes of
\* _fileStream
HandleAudioTrack(track, chunkSize, unpackedSize, bytes) ==
    /\ loaded
    /\ IF IsMarker(track, chunkSize)
       THEN /\ streamPos + 4 <= 4 * MaxMarkers
            /\ LET w == ReadUint16LE(bytes[1], bytes[2])
                   h == ReadUint16LE(bytes[3], bytes[4])
               IN  /\ lowRes' = MarkerLowRes(h, height)
                   /\ hMarker' = <<h, height>>
            /\ streamPos' = streamPos + 4
            /\ baseLog' = <<>>
       ELSE /\ baseLog' = << [track |-> track, chunkSize |-> chunkSize,
                              unpackedSize |-> unpackedSize] >>
            /\ UNCHANGED <<lowRes, streamPos, hMarker>>
    /\ decCall' = [op |-> "handleAudioTrack", ok |-> TRUE, track |-> track,
                   chunkSize |-> chunkSize, unpackedSize |-> unpackedSize,
                   bytes |-> bytes]
    /\ UNCHANGED <<loaded, height>>

(***************************************************************************)
(*                                  Movie                                  *)
(***************************************************************************)

\* the palette has 256 entries and a pixel is one byte; the model scales both to
\* NumColors
NumColors == 3
Colors == 0..(NumColors - 1)

\* the frame numbers between which the first intro video is patched
GlitchFirstFrame == 956
GlitchLastFrame == 1038

\* the most frames a video holds, events one loop iteration polls, plays that reach
\* their end
MaxFrames == 2
MaxEvents == 2
MaxPlays == 2

FirstIntroVideo == "209_1M.SMK"
Videos == {FirstIntroVideo, "OTHER.SMK"}
FlagValues == 0..3

\* (width, height) of the videos
FrameDims == {<<2, 2>>, <<1, 3>>}

\* what getCurFrame() answers
CurFrames == {GlitchFirstFrame - 1, GlitchFirstFrame, GlitchLastFrame, GlitchLastFrame + 1}

EscapeDown == [type |-> "EVENT_KEYDOWN", keycode |-> "KEYCODE_ESCAPE"]
NoEvent == [type |-> "EVENT_INVALID", keycode |-> "KEYCODE_INVALID"]
Events == {EscapeDown,
           [type |-> "EVENT_KEYUP", keycode |-> "KEYCODE_ESCAPE"],
           [type |-> "EVENT_KEYDOWN", keycode |-> "KEYCODE_SPACE"]}

SubtitleColor == <<255, 255, 0>>

\* a null frame pointer
NullFrame == [null |-> TRUE, w |-> 0, h |-> 0, pitch |-> 0, pixels |-> <<>>]

\* the 8-bit surfaces of w by h the decoder may hand out, their pixels row after row
Frames(w, h) ==
    {[null |-> FALSE, w |-> w, h |-> h, pitch |-> w, pixels |-> px] :
        px \in [1..(w * h) -> Colors]}

\* flags & bit
FlagSet(f, bit) == (f \div bit) % 2 = 1

\* frame->getBasePtr(0, y), for pitch bytes
FrameRow(f, y) == SubSeq(f.pixels, y * f.pitch + 1, y * f.pitch + f.pitch)

Call(op, from, args, data) == [op |-> op, from |-> from, args |-> args, data |-> data]

\* the frame row the y-th pair of screen rows is copied from
\* (a variant that copies without scaling)
ScaleSourceRowSame(y, k) == 2 * y + k

ScaleSourceRow(y, k) == y

\* the loop of the 2x scaling, from row y on
RECURSIVE ScaleRows(_, _)
ScaleRows(f, y) ==
    IF y < f.h \div 2
    THEN << Call("memcpy", "frame", <<2 * y + 0, ScaleSourceRow(y, 0)>>,
                 FrameRow(f, ScaleSourceRow(y, 0))),
            Call("memcpy", "frame", <<2 * y + 1, ScaleSourceRow(y, 1)>>,
                 FrameRow(f, ScaleSourceRow(y, 1))) >> \o ScaleRows(f, y + 1)
    ELSE <<>>

\* the low-res branch
ScaleCalls(f) ==
    <<Call("lockScreen", "", <<>>, <<>>)>> \o ScaleRows(f, 0)
        \o <<Call("unlockScreen", "", <<>>, <<>>)>>

\* the pixels the color-key search counts
CountedPixels(f) == {f.pixels[i] : i \in 1..(f.w * f.h)}

\* the search for the first j from `j` on that no pixel uses; 0 when there is none
RECURSIVE FindUnused(_, _)
FindUnused(counts, j) ==
    IF j < NumColors
    THEN IF j \notin counts THEN j ELSE FindUnused(counts, j + 1)
    ELSE 0

\* the color key of a frame shown at full size
\* (a variant that does not skip index 0)
ColorKeyFromZero(f) == FindUnused(CountedPixels(f), 0)

ColorKey(f) == FindUnused(CountedPixels(f), 1)

\* whether the glitch patch applies
\* (a variant that patches every video)
PatchAppliesAnyVideo(first, cur) == cur >= GlitchFirstFrame /\ cur <= GlitchLastFrame

PatchApplies(first, cur) == first /\ cur >= GlitchFirstFrame /\ cur <= GlitchLastFrame

\* copyRectToScreen(frame->getBasePtr(sx, sy), frame->pitch, x, y, w, h)
CopyRect(f, sx, sy, x, y, w, h) ==
    Call("copyRectToScreen", "frame", <<sx, sy, f.pitch, x, y, w, h>>, <<>>)

\* the four patches of the workaround
PatchCalls(f) ==
    << CopyRect(f, f.w - 188, 123, f.w - 188, 124, 188, 1),
       CopyRect(f, f.w - 188, 126, f.w - 188, 125, 188, 1),
       CopyRect(f, 0, 125, 0, 126, 64, 1),
       CopyRect(f, 0, 128, 0, 127, 64, 1) >>

\* the full-size branch
FullSizeCalls(f, cur, first) ==
    << CopyRect(f, 0, 0, 0, 0, f.w, f.h),
       Call("render", "frame", <<cur, ColorKey(f)>>, <<>>) >>
        \o (IF PatchApplies(first, cur) THEN PatchCalls(f) ELSE <<>>)

\* what the update does with the frame
FrameCalls(f, lr, cur, first) ==
    IF f.null THEN <<>>
    ELSE IF lr THEN ScaleCalls(f)
    ELSE FullSizeCalls(f, cur, first)

\* the value of unused when the palette is set
\* (a variant in which unused is not reset for each update)
UnusedKept(f, lr, old) == IF f.null \/ lr THEN old ELSE ColorKey(f)

UnusedOf(f, lr, old) == IF f.null \/ lr THEN 0 ELSE ColorKey(f)

\* the palette calls and the screen update that end the display update
PaletteCalls(key) ==
    <<Call("setPalette", "decoder", <<0, NumColors>>, <<>>)>>
        \o (IF key # 0
            THEN <<Call("setPalette", "subtitleColor", <<key, 1>>, SubtitleColor)>>
            ELSE <<>>)
        \o <<Call("updateScreen", "", <<>>, <<>>)>>

\* Movie::Movie on a new decoder
MovieInit ==
    /\ pc = "idle"
    /\ playing = FALSE
    /\ video = ""
    /\ flags = -1
    /\ isFirstIntroVideo = FALSE
    /\ subtitleNews = 1
    /\ subtitleDeletes = 0
    /\ decoderDeletes = 0
    /\ closes = 0
    /\ musicMuted = FALSE
    /\ musicVolume = 255
    /\ width = 0
    /\ framesLeft = 0
    /\ started = 0
    /\ quit = FALSE
    /\ frame = NullFrame
    /\ unused = 0
    /\ calls = <<>>
    /\ polled = 0
    /\ lastEvent = NoEvent
    /\ dirtyCount = 0

\* where play is after a failed loadFile
LoadFailedPc(f) == IF FlagSet(f, 2) THEN "idle" ELSE "error"

\* Movie::play up to its call of playVideo: v and f are its arguments, ok what
\* loadFile returns, dim and n the size and the length of the loaded video
Play(v, f, ok, dim, n) ==
    /\ pc = "idle"
    /\ closes < MaxPlays
    /\ video' = v
    /\ flags' = f
    /\ isFirstIntroVideo' = (v = FirstIntroVideo)
    /\ playing' = TRUE
    /\ musicVolume' = (IF FlagSet(f, 1) THEN 0 ELSE musicVolume)
    /\ lowRes' = LoadStreamLowRes(ok, lowRes)
    /\ loaded' = ok
    /\ started' = 0
    /\ dirtyCount' = 0
    /\ IF ok
       THEN /\ width' = dim[1]
            /\ height' = dim[2]
            /\ framesLeft' = n
            /\ pc' = "start"
       ELSE /\ UNCHANGED <<width, height, framesLeft>>
            /\ pc' = LoadFailedPc(f)
    /\ UNCHANGED chanVars
    /\ UNCHANGED <<subtitleNews, subtitleDeletes, decoderDeletes, closes, musicMuted,
                   quit, frame, unused, calls, polled, lastEvent,
                   streamPos, baseLog, decCall, hMarker>>

\* playVideo: _decoder->start()
PlayVideoStart ==
    /\ pc = "start"
    /\ started' = started + 1
    /\ pc' = "loop"
    /\ UNCHANGED chanVars
    /\ UNCHANGED <<playing, video, flags, isFirstIntroVideo, subtitleNews,
                   subtitleDeletes, decoderDeletes, closes, musicVolume, musicMuted,
                   width, framesLeft, quit, frame, unused, calls, polled,
                   lastEvent, dirtyCount, decVars>>

\* the while condition of playVideo
LoopGoesOn(q) == ~q /\ framesLeft # 0

\* playVideo: the while condition fails; q is what shouldQuit() answers
LoopExit(q) ==
    /\ pc = "loop"
    /\ ~LoopGoesOn(q)
    /\ quit' = q
    /\ dirtyCount' = dirtyCount + 1
    /\ pc' = "ret"
    /\ UNCHANGED chanVars
    /\ UNCHANGED <<playing, video, flags, isFirstIntroVideo, subtitleNews,
                   subtitleDeletes, decoderDeletes, closes, musicVolume, musicMuted,
                   width, framesLeft, started, frame, unused, calls,
                   polled, lastEvent, decVars>>

\* playVideo: one display update (shouldQuit() is false, needsUpdate() is true): f is
\* what decodeNextFrame
\* returns, lr the low-res flag the decoding leaves, cur what getCurFrame() answers
Update(f, lr, cur) ==
    /\ pc = "loop"
    /\ LoopGoesOn(FALSE)
    /\ quit' = FALSE
    /\ framesLeft' = framesLeft - 1
    /\ lowRes' = lr
    /\ frame' = f
    /\ unused' = UnusedOf(f, lr, unused)
    /\ calls' = FrameCalls(f, lr, cur, isFirstIntroVideo) \o PaletteCalls(unused')
    /\ pc' = "shown"
    /\ UNCHANGED chanVars
    /\ UNCHANGED <<playing, video, flags, isFirstIntroVideo, subtitleNews,
                   subtitleDeletes, decoderDeletes, closes, musicVolume, musicMuted,
                   width, started, polled, lastEvent, dirtyCount,
                   loaded, height, streamPos, baseLog, decCall, hMarker>>

\* playVideo: the block of the display update ends and its frame is gone
UpdateEnd ==
    /\ pc = "shown"
    /\ pc' = "poll"
    /\ frame' = NullFrame
    /\ calls' = <<>>
    /\ UNCHANGED chanVars
    /\ UNCHANGED <<playing, video, flags, isFirstIntroVideo, subtitleNews,
                   subtitleDeletes, decoderDeletes, closes, musicVolume, musicMuted,
                   width, framesLeft, started, quit, unused, polled, lastEvent,
                   dirtyCount, decVars>>

\* playVideo: an iteration in which needsUpdate() is false
NoUpdate ==
    /\ pc = "loop"
    /\ LoopGoesOn(FALSE)
    /\ quit' = FALSE
    /\ pc' = "poll"
    /\ UNCHANGED chanVars
    /\ UNCHANGED <<playing, video, flags, isFirstIntroVideo, subtitleNews,
                   subtitleDeletes, decoderDeletes, closes, musicVolume, musicMuted,
                   width, framesLeft, started, frame, unused, calls,
                   polled, lastEvent, dirtyCount, decVars>>

\* whether a polled event ends the playback
\* (a variant that takes any key)
IsEscapeAnyKey(ev) == ev.type = "EVENT_KEYDOWN"

IsEscape(ev) == ev.type = "EVENT_KEYDOWN" /\ ev.keycode = "KEYCODE_ESCAPE"

\* playVideo: pollEvent hands out ev
PollEvent(ev) ==
    /\ pc = "poll"
    /\ polled < MaxEvents
    /\ polled' = polled + 1
    /\ lastEvent' = ev
    /\ IF IsEscape(ev)
       THEN /\ dirtyCount' = dirtyCount + 1
            /\ pc' = "ret"
       ELSE /\ UNCHANGED <<dirtyCount, pc>>
    /\ UNCHANGED chanVars
    /\ UNCHANGED <<playing, video, flags, isFirstIntroVideo, subtitleNews,
                   subtitleDeletes, decoderDeletes, closes, musicVolume, musicMuted,
                   width, framesLeft, started, quit, frame, unused, calls,
                   decVars>>

\* playVideo: pollEvent has no event, delayMillis(10) and the iteration ends
Delay ==
    /\ pc = "poll"
    /\ pc' = "loop"
    /\ polled' = 0
    /\ lastEvent' = NoEvent
    /\ UNCHANGED chanVars
    /\ UNCHANGED <<playing, video, flags, isFirstIntroVideo, subtitleNews,
                   subtitleDeletes, decoderDeletes, closes, musicVolume, musicMuted,
                   width, framesLeft, started, quit, frame, unused, calls, dirtyCount,
                   decVars>>

\* what the end of play does to the decoder: <<closes, deletes>>
\* (a variant that deletes the decoder instead)
DecoderAtEndDeleted == <<0, 1>>

DecoderAtEnd == <<1, 0>>

\* the music volume play restores
RestoredVolume(muted) == IF muted THEN 0 ELSE 255

\* Movie::play after playVideo has returned; muted is what isMusicMuted() answers
PlayFinish(muted) ==
    /\ pc = "ret"
    /\ musicMuted' = (IF FlagSet(flags, 1) THEN muted ELSE musicMuted)
    /\ musicVolume' = (IF FlagSet(flags, 1) THEN RestoredVolume(muted) ELSE musicVolume)
    /\ closes' = closes + DecoderAtEnd[1]
    /\ decoderDeletes' = decoderDeletes + DecoderAtEnd[2]
    /\ loaded' = FALSE
    /\ playing' = FALSE
    /\ pc' = "idle"
    /\ polled' = 0
    /\ lastEvent' = NoEvent
    /\ UNCHANGED chanVars
    /\ UNCHANGED <<video, flags, isFirstIntroVideo, subtitleNews,
                   subtitleDeletes, width, framesLeft, started,
                   quit, frame, unused, calls, dirtyCount, lowRes, height, streamPos,
                   baseLog, decCall,
                   hMarker>>

\* Movie::~Movie
Destroy ==
    /\ pc = "idle"
    /\ decoderDeletes' = decoderDeletes + 1
    /\ subtitleDeletes' = subtitleDeletes + 1
    /\ pc' = "destroyed"
    /\ UNCHANGED chanVars
    /\ UNCHANGED <<playing, video, flags, isFirstIntroVideo, subtitleNews,
                   closes, musicVolume, musicMuted, width, framesLeft, started, quit,
                   frame, unused, calls, polled, lastEvent, dirtyCount,
                   decVars>>

(***************************************************************************)
(*                             Specifications                              *)
(***************************************************************************)

NextChannel ==
    \/ \E lvol \in Vols, rvol \in Vols : SetVolume(lvol, rvol) /\ UNCHANGED <<decVars, movVars>>
    \/ \E p \in Prios : SetPriority(p) /\ UNCHANGED <<decVars, movVars>>
    \/ GetVolume /\ UNCHANGED <<decVars, movVars>>
    \/ GetPriority /\ UNCHANGED <<decVars, movVars>>
    \/ IsPaused /\ UNCHANGED <<decVars, movVars>>

InitChannel == ChannelInit(Vols, Prios, BOOLEAN) /\ volArgs = <<>> /\ DecoderInit /\ MovieInit

SpecChannel == InitChannel /\ [][NextChannel]_vars

NextDecoder ==
    \/ \E ok \in BOOLEAN, h \in Heights : LoadStream(ok, h) /\ UNCHANGED <<chanVars, movVars>>
    \/ \E track \in Tracks, chunkSize \in ChunkSizes, unpackedSize \in UnpackedSizes :
          \E bytes \in StreamBytes(track, chunkSize) :
              /\ HandleAudioTrack(track, chunkSize, unpackedSize, bytes)
              /\ UNCHANGED <<chanVars, movVars>>

InitDecoder == ChannelInit({0}, {0}, {FALSE}) /\ volArgs = <<>> /\ DecoderInit /\ MovieInit

SpecDecoder == InitDecoder /\ [][NextDecoder]_vars

\* setVolume on every pair of the documented range: the arguments are drawn at the
\* start and the one call is made with them
InitVolume ==
    /\ ChannelInit({0}, {0}, {FALSE})
    /\ volArgs \in (0..MaxVol) \X (0..MaxVol)
    /\ DecoderInit
    /\ MovieInit

CallSetVolume ==
    /\ chanCall = NoCall
    /\ SetVolume(volArgs[1], volArgs[2])
    /\ UNCHANGED <<decVars, movVars>>

NextVolume == CallSetVolume

SpecVolume == InitVolume /\ [][NextVolume]_vars

\* the steps of play and playVideo
PlayStep ==
    \/ PlayVideoStart
    \/ \E q \in BOOLEAN : LoopExit(q)
    \/ \E f \in Frames(width, height) \cup {NullFrame}, lr \in BOOLEAN :
          \E cur \in (IF f.null \/ lr THEN {-1} ELSE CurFrames) : Update(f, lr, cur)
    \/ UpdateEnd
    \/ NoUpdate
    \/ \E ev \in Events : PollEvent(ev)
    \/ Delay
    \/ \E muted \in BOOLEAN : PlayFinish(muted)

NextMovie ==
    \/ \E v \in Videos, f \in FlagValues, ok \in BOOLEAN, dim \in FrameDims,
          n \in 0..MaxFrames : Play(v, f, ok, dim, n)
    \/ PlayStep
    \/ Destroy

InitMovie ==
    /\ ChannelInit({0}, {0}, {FALSE})
    /\ volArgs = <<>>
    /\ DecoderInit
    /\ MovieInit

SpecMovie == InitMovie /\ [][NextMovie]_vars

\* the loop of playVideo on videos of one size: play and playVideo run on, nothing in
\* them waits
PlaybackDims == {<<1, 3>>}

NextPlayback ==
    \/ \E v \in Videos, f \in FlagValues, ok \in BOOLEAN, dim \in PlaybackDims,
          n \in 0..MaxFrames : Play(v, f, ok, dim, n)
    \/ PlayStep
    \/ Destroy

FairSpecPlayback == InitMovie /\ [][NextPlayback]_vars /\ WF_vars(PlayStep)

(***************************************************************************)
(*                                 Claims                                  *)
(***************************************************************************)

ChanFields == <<lVol, rVol, priority, paused>>

C5Inv ==
    /\ hVol # <<>> => <<lVol, rVol>> = hVol
    /\ hPrio # <<>> => priority = hPrio[1]
    /\ chanCall.op = "getVolume" =>
          /\ chanRet = <<lVol, rVol>>
          /\ hVol # <<>> => chanRet = hVol
    /\ chanCall.op = "getPriority" =>
          /\ chanRet = <<priority>>
          /\ hPrio # <<>> => chanRet = hPrio
    /\ chanCall.op = "isPaused" => chanRet = <<paused>>

C5Step ==
    /\ chanCall'.op = "setVolume" =>
          /\ <<lVol', rVol'>> = <<chanCall'.a, chanCall'.b>>
          /\ priority' = priority /\ paused' = paused
    /\ chanCall'.op = "setPriority" =>
          /\ priority' = chanCall'.a
          /\ lVol' = lVol /\ rVol' = rVol /\ paused' = paused
          /\ mixerLog' = <<>>
    /\ chanCall'.op \in {"getVolume", "getPriority", "isPaused"} =>
          /\ ChanFields' = ChanFields
          /\ mixerLog' = <<>>

\* C5: getVolume and getPriority hand back exactly the arguments of the most recent
\* setVolume and setPriority; setVolume leaves priority and paused alone, setPriority
\* leaves the volumes and paused alone and calls nothing on the mixer, and the getters
\* change no field.
C5_CacheFaithful == []C5Inv /\ [][C5Step]_vars

C5_Witness ==
    /\ chanCall.op = "getVolume"
    /\ hVol # <<>> /\ hVol[1] # hVol[2]
    /\ hPrio # <<>>
    /\ chanRet = hVol

\* the quotient t of n by 2 truncates toward zero
Truncates(n, t) ==
    IF n >= 0 THEN 2 * t <= n /\ n < 2 * t + 2
              ELSE 2 * t >= n /\ n > 2 * t - 2

\* C10: setVolume(lvol, rvol) hands the mixer, for the channel's own handle, the
\* volume (rvol + lvol) / 2 and then the balance (rvol - lvol) / 2, both truncating
\* toward zero; for lvol, rvol in 0..256 the volume is in 0..256 and the balance in
\* -128..128, swapping the arguments negates the balance and keeps the volume, and
\* equal arguments give balance 0 and volume lvol.
C10_MixerForward ==
    chanCall.op = "setVolume" =>
        LET l == chanCall.a
            r == chanCall.b
        IN  /\ Len(mixerLog) = 2
            /\ mixerLog[1].fn = "setChannelVolume"
            /\ mixerLog[2].fn = "setChannelBalance"
            /\ mixerLog[1].handle = soundHandle /\ mixerLog[2].handle = soundHandle
            /\ Truncates(r + l, mixerLog[1].val)
            /\ Truncates(r - l, mixerLog[2].val)
            /\ r - l = -1 => mixerLog[2].val = 0
            /\ mixerLog[1].val \in 0..MaxVol
            /\ mixerLog[2].val \in -(MaxVol \div 2)..(MaxVol \div 2)
            /\ mixerLog[2].val = -ChannelBalance(r, l)
            /\ mixerLog[1].val = ChannelVolume(r, l)
            /\ l = r => mixerLog[2].val = 0 /\ mixerLog[1].val = l

C10_Witness ==
    /\ chanCall.op = "setVolume"
    /\ chanCall.b - chanCall.a = -1
    /\ mixerLog[2].val = 0

C8Inv ==
    /\ decCall.op = "new" => ~lowRes
    /\ decCall.op = "loadStream" /\ decCall.ok => ~lowRes
    /\ lowRes = (hMarker # <<>> /\ hMarker[1] = hMarker[2] \div 2)

C8Step ==
    LET c == decCall'
        marker == c.track = 1 /\ c.chunkSize = 4
    IN  /\ c.op = "loadStream" /\ c.ok => ~lowRes'
        /\ c.op = "loadStream" /\ ~c.ok => lowRes' = lowRes
        /\ c.op = "handleAudioTrack" /\ marker =>
              /\ Len(c.bytes) = 4
              /\ streamPos' = streamPos + 4
              /\ baseLog' = <<>>
              /\ lowRes' = (c.bytes[3] + 256 * c.bytes[4] = height \div 2)
        /\ c.op = "handleAudioTrack" /\ ~marker =>
              /\ baseLog' = << [track |-> c.track, chunkSize |-> c.chunkSize,
                                unpackedSize |-> c.unpackedSize] >>
              /\ lowRes' = lowRes
              /\ streamPos' = streamPos

\* C8: the low-res flag is false after construction and after every good loadStream,
\* a failed loadStream leaves it alone; a handleAudioTrack with track 1 and chunk size
\* 4 reads two 16-bit little-endian values, does not call the base handler and sets
\* the flag iff the second value equals getHeight() / 2; every other chunk goes to the
\* base handler and leaves the flag alone. The flag always reflects the most recent
\* marker chunk since the last good load.
C8_LowResFlag == []C8Inv /\ [][C8Step]_vars

C8_Witness ==
    /\ decCall.op = "handleAudioTrack"
    /\ decCall.track = 1 /\ decCall.chunkSize = 4
    /\ height = 401
    /\ lowRes


\* ---- Movie ----

\* the places of the calls of one host operation in the log of the display update
CallsOf(op) == {i \in 1..Len(calls) : calls[i].op = op}

\* the pixel values of the frame, taken as its w * h bytes
UsedByFrame == {frame.pixels[i] : i \in 1..(frame.w * frame.h)}

\* the bytes of row y of the frame
RowOfFrame(y) == [i \in 1..frame.pitch |-> frame.pixels[y * frame.pitch + i]]

\* a display update has just been made, with a frame
Shown == pc = "shown" /\ ~frame.null

\* C1: a low-res frame is scaled by row doubling: screen rows 2y and 2y+1 get a copy of
\* frame row y for every y < h / 2, so that a written screen row r holds frame row
\* r / 2; no frame row from h / 2 on is read; the screen is locked once and unlocked
\* once, before the palette is set.
C1_RowDoubling ==
    (Shown /\ lowRes) =>
        LET half == frame.h \div 2
            copies == CallsOf("memcpy")
            locks == CallsOf("lockScreen")
            unlocks == CallsOf("unlockScreen")
        IN  /\ Cardinality(locks) = 1 /\ Cardinality(unlocks) = 1
            /\ locks = {1}
            /\ \A u \in unlocks : \A p \in CallsOf("setPalette") : u < p
            /\ \A c \in copies : \A u \in unlocks : 1 < c /\ c < u
            /\ Cardinality(copies) = 2 * half
            /\ \A y \in 0..(half - 1) : \A r \in {2 * y, 2 * y + 1} :
                  \E c \in copies :
                      /\ calls[c].args[1] = r
                      /\ calls[c].data = RowOfFrame(y)
            /\ \A c \in copies :
                  /\ calls[c].args[1] \in 0..(2 * half - 1)
                  /\ calls[c].args[2] = calls[c].args[1] \div 2
                  /\ calls[c].args[2] < half
                  /\ calls[c].data = RowOfFrame(calls[c].args[1] \div 2)
            /\ CallsOf("copyRectToScreen") = {} /\ CallsOf("render") = {}

C1_Witness ==
    /\ Shown /\ lowRes
    /\ frame.h = 2 /\ frame.w = 2
    /\ RowOfFrame(0) # RowOfFrame(1)
    /\ \E c \in CallsOf("memcpy") : calls[c].args[1] = 1 /\ calls[c].data = RowOfFrame(0)

\* C2: the color key handed to the subtitle renderer for a full-size frame is the
\* smallest palette index from 1 on that no pixel of the frame uses; 0 is never
\* picked as a found key, and the key is 0 exactly when every index from 1 on is used.
C2_ColorKey ==
    (Shown /\ ~lowRes) =>
        /\ Cardinality(CallsOf("render")) = 1
        /\ \A c \in CallsOf("render") :
              LET key == calls[c].args[2]
              IN  /\ key = unused
                  /\ key \in 0..(NumColors - 1)
                  /\ key # 0 =>
                        /\ key \notin UsedByFrame
                        /\ \A j \in 1..(key - 1) : j \in UsedByFrame
                  /\ key = 0 <=> (\A j \in 1..(NumColors - 1) : j \in UsedByFrame)

C2_Witness ==
    /\ Shown /\ ~lowRes
    /\ 0 \notin UsedByFrame
    /\ 1 \in UsedByFrame
    /\ \E c \in CallsOf("render") : calls[c].args[2] = 2

\* C3: a display update sets the whole decoder palette first and then overwrites one
\* entry, the key, with the subtitle color iff the key of this update is not 0; entry
\* 0 is never overwritten, nothing is overwritten for a low-res or a null frame, and
\* an overwritten entry is used by no pixel of the frame of this update.
C3_Palette ==
    pc = "shown" =>
        LET sets == CallsOf("setPalette")
            whole == {i \in sets : calls[i].from = "decoder"}
            keyed == {i \in sets : calls[i].from = "subtitleColor"}
        IN  /\ Cardinality(whole) = 1
            /\ sets = whole \cup keyed
            /\ \A i \in whole : calls[i].args = <<0, NumColors>>
            /\ \A i \in whole : \A j \in keyed : j = i + 1
            /\ Cardinality(keyed) = (IF unused # 0 THEN 1 ELSE 0)
            /\ \A j \in keyed :
                  /\ calls[j].args = <<unused, 1>>
                  /\ calls[j].data = <<255, 255, 0>>
                  /\ calls[j].args[1] # 0
                  /\ ~frame.null /\ ~lowRes
                  /\ calls[j].args[1] \notin UsedByFrame
            /\ (frame.null \/ lowRes) => unused = 0 /\ keyed = {}
            /\ calls[Len(calls)].op = "updateScreen"
            /\ \A i \in sets : i < Len(calls)

\* a full-size frame with a color key other than the first index: its entry is
\* overwritten
C3_Witness ==
    /\ Shown /\ ~lowRes
    /\ unused = 2
    /\ Cardinality(CallsOf("setPalette")) = 2

\* the four copies of the workaround, for a frame of width w and pitch p
C4Patches(w, p) ==
    << <<w - 188, 123, p, w - 188, 124, 188, 1>>,
       <<w - 188, 126, p, w - 188, 125, 188, 1>>,
       <<0, 125, p, 0, 126, 64, 1>>,
       <<0, 128, p, 0, 127, 64, 1>> >>

\* C4: the four one-row patches are made iff the video is "209_1M.SMK", the frame is
\* full-size and the current frame number is in 956..1038; they come after the copy of
\* the whole frame and after the subtitle render; otherwise no patch is made.
C4_GlitchPatch ==
    Shown =>
        LET rects == CallsOf("copyRectToScreen")
            renders == CallsOf("render")
            applies == /\ video = "209_1M.SMK"
                       /\ ~lowRes
                       /\ \E r \in renders : calls[r].args[1] \in 956..1038
        IN  IF applies
            THEN /\ rects = {1, 3, 4, 5, 6}
                 /\ renders = {2}
                 /\ calls[1].args = <<0, 0, frame.pitch, 0, 0, frame.w, frame.h>>
                 /\ \A k \in 1..4 : calls[2 + k].args = C4Patches(frame.w, frame.pitch)[k]
            ELSE /\ rects \subseteq {1}
                 /\ \A i \in rects :
                       calls[i].args = <<0, 0, frame.pitch, 0, 0, frame.w, frame.h>>
                 /\ lowRes => rects = {}

C4_Witness ==
    /\ Shown /\ ~lowRes
    /\ video = "209_1M.SMK"
    /\ \E r \in CallsOf("render") : calls[r].args[1] = 1038
    /\ Cardinality(CallsOf("copyRectToScreen")) = 5

\* C6: one subtitle renderer is created, with the movie; the decoder and the subtitle
\* renderer are deleted once each, by the destructor and by nothing else; play closes
\* the decoder and deletes nothing, so both are alive whenever play is called.
C6_Ownership ==
    /\ subtitleNews = 1
    /\ decoderDeletes = (IF pc = "destroyed" THEN 1 ELSE 0)
    /\ subtitleDeletes = (IF pc = "destroyed" THEN 1 ELSE 0)

\* a second play under way after a first one has closed the decoder
C6_Witness ==
    /\ pc = "loop"
    /\ closes >= 1
    /\ decoderDeletes = 0 /\ subtitleDeletes = 0

\* C7: whenever play has returned, _playing is false again and, if flags bit 1 was set,
\* the music volume is back at 255 (0 when the music is muted).
C7_PlayRestores ==
    (pc = "idle" /\ flags # -1) =>
        /\ ~playing
        /\ FlagSet(flags, 1) => musicVolume = (IF musicMuted THEN 0 ELSE 255)

InPlayVideo == pc \in {"loop", "shown", "poll"}

C9Inv ==
    /\ pc = "start" => started = 0 /\ dirtyCount = 0
    /\ InPlayVideo => started = 1 /\ dirtyCount = 0
    /\ pc = "ret" =>
          /\ started = 1 /\ dirtyCount = 1
          /\ \/ quit
             \/ framesLeft = 0
             \/ lastEvent = [type |-> "EVENT_KEYDOWN", keycode |-> "KEYCODE_ESCAPE"]

C9Step ==
    /\ pc' = "shown" => pc = "loop" /\ started = 1 /\ ~quit' /\ framesLeft > 0
    /\ (pc # "ret" /\ pc' = "ret") =>
          /\ dirtyCount' = dirtyCount + 1
          /\ \/ pc = "loop" /\ (quit' \/ framesLeft = 0)
             \/ /\ pc = "poll"
                /\ lastEvent' = [type |-> "EVENT_KEYDOWN", keycode |-> "KEYCODE_ESCAPE"]
    /\ (InPlayVideo /\ dirtyCount' # dirtyCount) => pc' = "ret"
    /\ pc = "shown" => pc' = "poll" /\ polled' = polled /\ lastEvent' = lastEvent
    /\ polled' > polled => pc = "poll"
    /\ (pc = "poll" /\ pc' = "poll") =>
          /\ polled' = polled + 1
          /\ lastEvent' # [type |-> "EVENT_KEYDOWN", keycode |-> "KEYCODE_ESCAPE"]
          /\ UNCHANGED <<framesLeft, frame, calls, dirtyCount, started, playing>>

\* C9: playVideo starts the decoder once, before any frame is decoded; it returns only
\* when shouldQuit() is true, the video has ended or an Escape key-down was polled;
\* other events are drained and ignored, and events are polled only after the update
\* of the iteration; dirtyAllScreen() is called once, on the way out, and never while
\* the loop goes on; once the video has ended playVideo returns.
C9_PlayVideoLoop ==
    /\ []C9Inv
    /\ [][C9Step]_vars
    /\ ((InPlayVideo /\ framesLeft = 0) ~> (pc = "ret"))

\* playVideo returns by Escape after a second event, having shown a frame
C9_Witness ==
    /\ pc = "ret"
    /\ lastEvent = EscapeDown
    /\ polled = 2
    /\ framesLeft = 1
    /\ ~quit

=============================================================================
